---- MODULE Spec2Model ----
(***************************************************************************)
(* Client-side session and cache layer of the storefront:                  *)
(*   AuthService      (token store, register/verify/login/logout/refresh)  *)
(*   UserService      (profile and address cache over the gateway)         *)
(*   AuthStateManager (listener of the session events)                     *)
(* Every async method is split where it awaits the gateway: a start step   *)
(* (the synchronous prefix: guards, validation, issuing the request) and   *)
(* a resume step (the code after the await, run when the gateway answers). *)
(* The steps of different calls interleave; one step is one uninterrupted  *)
(* run of the single JavaScript thread.                                    *)
(***************************************************************************)
EXTENDS Integers, Sequences, FiniteSets, Bags

(* ------------------------------ bounds --------------------------------- *)

\* Number of calls that may be awaiting the gateway at the same time.
MaxCalls == 2

\* The clock (Date.now() / 1000, in units of five minutes) runs from 0 to
\* MaxTime.
MaxTime == 3

\* Lifetime, in clock units, of the access tokens the gateway issues.
TokenLife == 2

\* Longest one-time code tried by verifyOtp.
MaxOtpLen == 7

\* Address ids the gateway can assign to new addresses: 3 .. MaxAddrId
\* (addr_1 and addr_2 are the two addresses of the gateway's list).
MaxAddrId == 3

\* UserService calls that may be in flight at once in the user spec
MaxUserCalls == 1

\* The last instant of the clock in the refresh spec, in units of five minutes
MaxRefreshTime == 22

\* Listeners registered with AuthStateManager at once
MaxListeners == 2

(* ----------------------------- constants ------------------------------- *)
\* In clock units of five minutes.

\* setInterval(..., 50 * 60 * 1000) of setupTokenRefresh
RefreshEvery == 10

\* timeUntilExpiry < 600 of refreshTokenIfNeeded
RefreshThreshold == 2

\* "assuming 60-minute token expiry" of setupTokenRefresh
AssumedTokenLife == 12

(* ----------------------------- strings --------------------------------- *)
\* A string is a sequence of one-character strings.

Lower == {"a", "b", "c", "d", "e", "f", "g", "h", "i", "j", "k", "l", "m",
          "n", "o", "p", "q", "r", "s", "t", "u", "v", "w", "x", "y", "z"}
Upper == {"A", "B", "C", "D", "E", "F", "G", "H", "I", "J", "K", "L", "M",
          "N", "O", "P", "Q", "R", "S", "T", "U", "V", "W", "X", "Y", "Z"}
Digit == {"0", "1", "2", "3", "4", "5", "6", "7", "8", "9"}
Punct == {"@", ".", "-", "+", "(", ")", "_"}
Space == {" "}
Alphabet == Lower \cup Upper \cup Digit \cup Punct \cup Space

\* String.prototype.trim
RECURSIVE trimStart(_)
trimStart(s) ==
    IF s # <<>> /\ Head(s) \in Space THEN trimStart(Tail(s)) ELSE s

RECURSIVE trimEnd(_)
trimEnd(s) ==
    IF s # <<>> /\ s[Len(s)] \in Space
    THEN trimEnd(SubSeq(s, 1, Len(s) - 1))
    ELSE s

trim(s) == trimEnd(trimStart(s))

\* One regular-expression item: a character class repeated min..max times.
Item(cls, min, max) == [cls |-> cls, min |-> min, max |-> max]

\* Does the item list match s from position j to the end of s (anchored ^...$),
\* trying every repetition count as a backtracking matcher does?
RECURSIVE MatchFrom(_, _, _, _)
MatchFrom(items, i, s, j) ==
    IF i > Len(items)
    THEN j = Len(s) + 1
    ELSE \E k \in items[i].min .. items[i].max :
            /\ j + k - 1 <= Len(s)
            /\ \A m \in j .. (j + k - 1) : s[m] \in items[i].cls
            /\ MatchFrom(items, i + 1, s, j + k)

Match(items, s) == MatchFrom(items, 1, s, 1)

NotSpaceAt == Alphabet \ (Space \cup {"@"})

\* /^[^\s@]+@[^\s@]+\.[^\s@]+$/
emailRegex(len) ==
    << Item(NotSpaceAt, 1, len), Item({"@"}, 1, 1), Item(NotSpaceAt, 1, len),
       Item({"."}, 1, 1), Item(NotSpaceAt, 1, len) >>

validateEmail(email) == Match(emailRegex(Len(email)), email)

\* /^(?=.*[a-z])(?=.*[A-Z])(?=.*\d).{8,}$/   (no line terminator in Alphabet)
validatePassword(password) ==
    /\ \E i \in 1 .. Len(password) : password[i] \in Lower
    /\ \E i \in 1 .. Len(password) : password[i] \in Upper
    /\ \E i \in 1 .. Len(password) : password[i] \in Digit
    /\ Len(password) >= 8

\* /^[\+]?[(]?[0-9]{1,4}[)]?[-\s\.]?[(]?[0-9]{1,4}[)]?[-\s\.]?[0-9]{1,9}$/
phoneRegex ==
    << Item({"+"}, 0, 1), Item({"("}, 0, 1), Item(Digit, 1, 4), Item({")"}, 0, 1),
       Item({"-", " ", "."}, 0, 1), Item({"("}, 0, 1), Item(Digit, 1, 4),
       Item({")"}, 0, 1), Item({"-", " ", "."}, 0, 1), Item(Digit, 1, 9) >>

validatePhone(phone) == Match(phoneRegex, phone)

\* /^\d{5,6}(-\d{4})?$/
zipRegexShort == << Item(Digit, 5, 6) >>
zipRegexLong == << Item(Digit, 5, 6), Item({"-"}, 1, 1), Item(Digit, 4, 4) >>

validateZip(zipCode) == Match(zipRegexShort, zipCode) \/ Match(zipRegexLong, zipCode)

\* JavaScript truthiness of a string: the empty string is falsy.
Truthy(s) == s # <<>>

(* ------------------------------ state ---------------------------------- *)

VARIABLES
    auth_token,            \* localStorage['auth_token']
    refresh_token,         \* localStorage['refresh_token']
    user_data,             \* localStorage['user_data']
    pending_registration,  \* sessionStorage['pending_registration']
    user_addresses,        \* localStorage['user_addresses']
    now,                   \* Date.now() / 1000
    nextAddr,              \* the id the gateway gives the next new address
    calls,                 \* the calls awaiting the gateway (a bag of them)
    listeners,             \* AuthStateManager.listeners
    nextCheck,             \* when the setInterval timer of setupTokenRefresh fires next
    last                   \* the step just taken: what it was and what it did

vars == << auth_token, refresh_token, user_data, pending_registration,
           user_addresses, now, nextAddr, calls, listeners, nextCheck, last >>

coordinator == << listeners, nextCheck >>

session == << auth_token, refresh_token, user_data, pending_registration >>
store == << auth_token, refresh_token, user_data, pending_registration, user_addresses >>

\* localStorage.getItem of a key that is not set
NoToken == [segs |-> 0, exp |-> 0]
NoRefresh == "null"
NoUser == [id |-> "null", phone |-> "null", avatar |-> "null"]
NoPending == "null"
NoCache == [cached |-> FALSE, list |-> << >>]

\* The tokens of mockApiCall, 'mock_jwt_token_' + Date.now(): one segment, no
\* payload.  A gateway that issues JWTs returns header.payload.signature with
\* the expiry claim in the payload.
MockToken == [segs |-> 1, exp |-> 0]
Jwt(exp) == [segs |-> 3, exp |-> exp]

\* An in-flight call: the method, and what it holds across its await.
Idle == [op |-> "idle", id |-> 0, addressType |-> "none", isDefault |-> FALSE,
         hadCache |-> FALSE, phone |-> "none", found |-> "none"]
Call(op) == [Idle EXCEPT !.op = op]

\* The record of one step.  outcome: "pending" (the call now awaits the
\* gateway), "ok" (it returned), "error" (it threw), "none" (not a call);
\* error: the message of the error thrown, where a property tells errors apart;
\* delivered: the listeners of AuthStateManager the step called, in order;
\* valid: did the input satisfy the documented validation rule of the
\* operation; gw: gateway requests the step issued; events: the window events
\* the step dispatched, in order; redirect: window.location.href was set to the
\* login page; target: the address it was set to by requireAuth; had: what the
\* session held when a step that clears it began; seen: the stored items the
\* operation writes, as a listener reads them while the event is dispatched.
HadNothing == [token |-> FALSE, refresh |-> FALSE, user |-> FALSE]

Step(op, outcome) ==
    [op |-> op, outcome |-> outcome, valid |-> TRUE, gw |-> 0, events |-> << >>,
     redirect |-> FALSE, result |-> FALSE, id |-> 0, prevDefault |-> {},
     had |-> HadNothing,
     error |-> IF outcome = "error" THEN "other" ELSE "none",
     delivered |-> << >>, target |-> << >>, seen |-> << >>]

\* new Error('User not authenticated')
NotAuthenticated(op) == [Step(op, "error") EXCEPT !.error = "User not authenticated"]

\* The error of a request that failed or was answered with success false
GatewayError(op) == [Step(op, "error") EXCEPT !.error = "gateway"]

\* The error of reading a property of null or undefined
TypeError(op) == [Step(op, "error") EXCEPT !.error = "TypeError"]

Had ==
    [token |-> auth_token # NoToken, refresh |-> refresh_token # NoRefresh,
     user |-> user_data # NoUser]

(* ---------------------------- token store ------------------------------ *)

getToken == auth_token
getRefreshToken == refresh_token

\* AuthService.parseJwt: token.split('.')[1] is undefined for a token with one
\* segment and .replace on it throws.
parseJwt(token) ==
    IF token.segs < 2
    THEN [threw |-> TRUE, exp |-> 0]
    ELSE [threw |-> FALSE, exp |-> token.exp]

\* isAuthenticated with the expiry compared inclusively
isAuthenticated_Inclusive ==
    LET token == getToken IN
    IF token = NoToken THEN FALSE
    ELSE LET payload == parseJwt(token) IN
         IF payload.threw THEN FALSE ELSE payload.exp >= now

\* AuthService.isAuthenticated
isAuthenticated ==
    LET token == getToken IN
    IF token = NoToken THEN FALSE
    ELSE LET payload == parseJwt(token) IN
         IF payload.threw THEN FALSE ELSE payload.exp > now

\* AuthService.getCurrentUser: the stored record, whatever the token says
getCurrentUser == user_data

\* setTokens that writes the refresh token whatever it is given
setTokens_Overwrites(token, refreshToken) ==
    /\ auth_token' = token
    /\ refresh_token' = refreshToken

\* AuthService.setTokens: the refresh token is written only when truthy
setTokens(token, refreshToken) ==
    /\ auth_token' = token
    /\ refresh_token' = IF refreshToken # NoRefresh THEN refreshToken ELSE refresh_token

\* AuthService.setUserData
setUserData(user) == user_data' = user

\* clearAuthData that leaves the user record behind
clearAuthData_KeepsUser ==
    /\ auth_token' = NoToken
    /\ refresh_token' = NoRefresh
    /\ user_data' = user_data
    /\ pending_registration' = NoPending

\* AuthService.clearAuthData
clearAuthData ==
    /\ auth_token' = NoToken
    /\ refresh_token' = NoRefresh
    /\ user_data' = NoUser
    /\ pending_registration' = NoPending

\* AuthStateManager.clearUserData via UserService.clearCachedAddresses
clearUserData == user_addresses' = NoCache

\* window.dispatchEvent runs the listeners before it returns.  The listener of
\* 'userLoggedOut' (AuthStateManager.handleLogout) clears the address cache; the
\* listeners of the other events write nothing to the stores.
dispatchEvents(events) ==
    IF \E i \in 1 .. Len(events) : events[i] = "userLoggedOut"
    THEN clearUserData
    ELSE UNCHANGED user_addresses

\* The stored items each operation writes before it dispatches its event:
\* setTokens and setUserData in loginUser, clearAuthData in logoutUser.
LoginItems == {"auth_token", "refresh_token", "user_data"}

SessionItems == LoginItems \cup {"pending_registration"}

\* What a listener reading the stores during the dispatch finds, were the
\* event dispatched ahead of the writes: the values the step began with.
BeforeWrites(items) ==
    [k \in items |-> CASE k = "auth_token" -> auth_token
                      [] k = "refresh_token" -> refresh_token
                      [] k = "user_data" -> user_data
                      [] k = "pending_registration" -> pending_registration
                      [] k = "user_addresses" -> user_addresses]

\* What a listener reading the stores during the dispatch finds: every
\* operation calls window.dispatchEvent after its setItem and removeItem calls,
\* so the listener reads the values the operation has written.
AtDispatch(items) ==
    [k \in items |-> CASE k = "auth_token" -> auth_token'
                      [] k = "refresh_token" -> refresh_token'
                      [] k = "user_data" -> user_data'
                      [] k = "pending_registration" -> pending_registration'
                      [] k = "user_addresses" -> user_addresses']

\* AuthStateManager.updateAuthState: the snapshot it hands to the listeners,
\* and whether it renders the page for a signed-in user.
updateAuthState ==
    [isAuthenticated |-> isAuthenticated, user |-> getCurrentUser,
     authenticatedUI |-> isAuthenticated /\ getCurrentUser # NoUser]

(* ------------------------------ gateway -------------------------------- *)
\* The gateway answers a request with {success: true, ...}, with
\* {success: false, message}, or the request fails (the call throws).
Responses == {"ok", "reject", "throw"}

\* The access tokens a successful login, verification or refresh may carry.
IssuedTokens == {MockToken, Jwt(now + TokenLife)}

\* ... and the refresh tokens (the response may carry none).
IssuedRefresh(name) == {name, NoRefresh}

LoginUser == [id |-> "user_123", phone |-> "+1234567890", avatar |-> "undefined"]
VerifiedUser == [id |-> "user_ts", phone |-> "+1234567890", avatar |-> "undefined"]

(* ------------------------------- inputs -------------------------------- *)

Str_user_example_com ==
    << "u", "s", "e", "r", "@", "e", "x", "a", "m", "p", "l", "e", ".", "c", "o", "m" >>
Str_bad_email == << "b", "a", "d", "-", "e", "m", "a", "i", "l" >>
Str_SecurePass123 ==
    << "S", "e", "c", "u", "r", "e", "P", "a", "s", "s", "1", "2", "3" >>
Str_weak == << "w", "e", "a", "k" >>
Str_password1 == << "p", "a", "s", "s", "w", "o", "r", "d", "1" >>

Str_12345 == << "1", "2", "3", "4", "5" >>
Str_123456 == << "1", "2", "3", "4", "5", "6" >>

Emails == { << >>, Str_bad_email, Str_user_example_com }
Passwords == { << >>, Str_weak, Str_password1, Str_SecurePass123 }
Names == { << >>, << "A" >> }

\* registerUser: the documented call, Scenario B, and the documented call
\* with one field replaced
ValidRegistration ==
    [email |-> Str_user_example_com, password |-> Str_SecurePass123,
     firstName |-> << "J", "o", "h", "n" >>, lastName |-> << "D", "o", "e" >>]

ScenarioBRegistration ==
    [email |-> Str_bad_email, password |-> Str_weak,
     firstName |-> << "A" >>, lastName |-> << "B" >>]

RegisterInputs ==
    { ValidRegistration, ScenarioBRegistration }
    \cup { [ValidRegistration EXCEPT !.email = e] : e \in Emails }
    \cup { [ValidRegistration EXCEPT !.password = p] : p \in Passwords }
    \cup { [ValidRegistration EXCEPT !.firstName = << >>],
           [ValidRegistration EXCEPT !.lastName = << >>] }

LoginInputs == [email : Emails, password : { << >>, Str_weak, Str_SecurePass123 }]

ResetInputs == [token : { << >>, << "t" >> }, newPassword : Passwords]

ChangeInputs == [currentPassword : { << >>, Str_SecurePass123 }, newPassword : Passwords]

\* One-time codes of every length up to MaxOtpLen: all digits, or with a letter
\* in the first or in the last place
OtpInputs ==
    UNION { { [i \in 1 .. n |-> IF i = p THEN "x" ELSE "7"] : p \in {0, 1, n} } :
            n \in 0 .. MaxOtpLen }
    \cup { Str_12345, Str_123456 }

Str_userId == << "u", "s", "e", "r", "_", "1" >>

VerifyInputs ==
    { [userId |-> Str_userId, otp |-> otp] : otp \in OtpInputs }
    \cup { [userId |-> << >>, otp |-> Str_123456] }

\* The documented rule for a one-time code: exactly 6 digits.
IsSixDigits(otp) == Len(otp) = 6 /\ \A i \in 1 .. Len(otp) : otp[i] \in Digit

(* ----------------------------- AuthService ----------------------------- *)

\* At most MaxCalls calls await the gateway at a time.
Free == BagCardinality(calls) < MaxCalls
Await(call) == calls' = calls (+) SetToBag({call})
Pending(op) == { call \in BagToSet(calls) : call.op = op }
Done(call) == calls' = calls (-) SetToBag({call})

\* registerUser up to its await
registerUser_Start(userData) ==
    /\ Free
    /\ LET ok == /\ Truthy(userData.email) /\ Truthy(userData.password)
                 /\ Truthy(userData.firstName) /\ Truthy(userData.lastName)
                 /\ validateEmail(userData.email)
                 /\ validatePassword(userData.password)
       IN IF ok
          THEN /\ Await(Call("registerUser"))
               /\ last' = [Step("registerUser", "pending") EXCEPT !.gw = 1]
          ELSE /\ UNCHANGED calls
               /\ last' = [Step("registerUser", "error") EXCEPT !.valid = FALSE]
    /\ UNCHANGED << store, now, nextAddr, coordinator >>

\* registerUser after its await
registerUser_Resume(resp) ==
    \E call \in Pending("registerUser") :
        /\ Done(call)
        /\ IF resp = "ok"
           THEN /\ pending_registration' = "user_ts"
                /\ last' = Step("registerUser", "ok")
           ELSE /\ UNCHANGED pending_registration
                /\ last' = Step("registerUser", "error")
        /\ UNCHANGED << auth_token, refresh_token, user_data, user_addresses, now, nextAddr, coordinator >>

\* verifyOtp up to its await
verifyOtp_Start(userId, otp) ==
    /\ Free
    /\ LET ok == Truthy(userId) /\ Truthy(otp) /\ Len(otp) = 6
           documented == Truthy(userId) /\ IsSixDigits(otp)
       IN IF ok
          THEN /\ Await(Call("verifyOtp"))
               /\ last' = [Step("verifyOtp", "pending") EXCEPT !.gw = 1, !.valid = documented]
          ELSE /\ UNCHANGED calls
               /\ last' = [Step("verifyOtp", "error") EXCEPT !.valid = documented]
    /\ UNCHANGED << store, now, nextAddr, coordinator >>

\* verifyOtp after its await
verifyOtp_Resume(resp) ==
    \E call \in Pending("verifyOtp") :
        /\ Done(call)
        /\ IF resp = "ok"
           THEN \E token \in IssuedTokens, refreshToken \in IssuedRefresh("mock_refresh_token") :
                   /\ pending_registration' = NoPending
                   /\ setTokens(token, refreshToken)
                   /\ setUserData(VerifiedUser)
                   /\ last' = Step("verifyOtp", "ok")
           ELSE /\ UNCHANGED session
                /\ last' = Step("verifyOtp", "error")
        /\ UNCHANGED << user_addresses, now, nextAddr, coordinator >>

\* resendOtp: no validation and nothing stored; the answer goes to the caller
resendOtp(resp) ==
    /\ last' = [Step("resendOtp", IF resp = "throw" THEN "error" ELSE "ok") EXCEPT !.gw = 1]
    /\ UNCHANGED << store, now, nextAddr, coordinator, calls >>

\* loginUser up to its await
loginUser_Start(email, password) ==
    /\ Free
    /\ LET ok == Truthy(email) /\ Truthy(password) /\ validateEmail(email)
       IN IF ok
          THEN /\ Await(Call("loginUser"))
               /\ last' = [Step("loginUser", "pending") EXCEPT !.gw = 1]
          ELSE /\ UNCHANGED calls
               /\ last' = [Step("loginUser", "error") EXCEPT !.valid = FALSE]
    /\ UNCHANGED << store, now, nextAddr, coordinator >>

\* loginUser after its await
loginUser_Answer(resp, tokens) ==
    \E call \in Pending("loginUser") :
        /\ Done(call)
        /\ IF resp = "ok"
           THEN \E token \in tokens, refreshToken \in IssuedRefresh("mock_refresh_token") :
                   /\ setTokens(token, refreshToken)
                   /\ setUserData(LoginUser)
                   /\ last' = [Step("loginUser", "ok") EXCEPT !.events = << "userLoggedIn" >>,
                                                         !.seen = AtDispatch(LoginItems)]
                   /\ dispatchEvents(<< "userLoggedIn" >>)
           ELSE /\ UNCHANGED << auth_token, refresh_token, user_data, user_addresses >>
                /\ last' = Step("loginUser", "error")
        /\ UNCHANGED << pending_registration, now, nextAddr, coordinator >>

loginUser_Resume(resp) == loginUser_Answer(resp, IssuedTokens)

\* logoutUser up to its await; with no token stored there is no await and the
\* method runs to its end
logoutUser_Start ==
    /\ Free
    /\ IF getToken # NoToken
       THEN /\ Await(Call("logoutUser"))
            /\ last' = [Step("logoutUser", "pending") EXCEPT !.gw = 1]
            /\ UNCHANGED store
       ELSE /\ UNCHANGED calls
            /\ clearAuthData
            /\ dispatchEvents(<< "userLoggedOut" >>)
            /\ last' = [Step("logoutUser", "ok") EXCEPT !.events = << "userLoggedOut" >>,
                                                       !.seen = AtDispatch(SessionItems),
                                                       !.had = Had]
    /\ UNCHANGED << now, nextAddr, coordinator >>

\* logoutUser after its await: the answer is not looked at; a request that
\* throws goes to the catch block, which clears the data and rethrows
logoutUser_Resume(resp) ==
    \E call \in Pending("logoutUser") :
        /\ Done(call)
        /\ clearAuthData
        /\ IF resp # "throw"
           THEN /\ dispatchEvents(<< "userLoggedOut" >>)
                /\ last' = [Step("logoutUser", "ok") EXCEPT !.events = << "userLoggedOut" >>,
                                                           !.seen = AtDispatch(SessionItems),
                                                           !.had = Had]
           ELSE /\ UNCHANGED user_addresses
                /\ last' = [Step("logoutUser", "error") EXCEPT !.had = Had]
        /\ UNCHANGED << now, nextAddr, coordinator >>

\* the catch block of refreshToken
refreshToken_Catch ==
    /\ clearAuthData
    /\ last' = [Step("refreshToken", "error") EXCEPT !.redirect = TRUE, !.had = Had]

\* refreshToken up to its await; with no refresh token stored it throws at once
refreshToken_Start ==
    /\ Free
    /\ IF getRefreshToken # NoRefresh
       THEN /\ Await(Call("refreshToken"))
            /\ last' = [Step("refreshToken", "pending") EXCEPT !.gw = 1]
            /\ UNCHANGED session
       ELSE /\ UNCHANGED calls
            /\ refreshToken_Catch
    /\ UNCHANGED << user_addresses, now, nextAddr, coordinator >>

\* refreshToken after its await
refreshToken_Resume(resp) ==
    \E call \in Pending("refreshToken") :
        /\ Done(call)
        /\ IF resp = "ok"
           THEN \E token \in IssuedTokens, refreshToken \in IssuedRefresh("new_mock_refresh_token") :
                   /\ setTokens(token, refreshToken)
                   /\ UNCHANGED << user_data, pending_registration >>
                   /\ last' = Step("refreshToken", "ok")
           ELSE refreshToken_Catch
        /\ UNCHANGED << user_addresses, now, nextAddr, coordinator >>

\* The outcome of a request whose answer is handed to the caller unread
Answered(op, resp) == [Step(op, IF resp = "throw" THEN "error" ELSE "ok") EXCEPT !.gw = 1]

\* forgotPassword: nothing is stored on either side of its await
forgotPassword(email, resp) ==
    /\ IF Truthy(email) /\ validateEmail(email)
       THEN last' = Answered("forgotPassword", resp)
       ELSE last' = [Step("forgotPassword", "error") EXCEPT !.valid = FALSE]
    /\ UNCHANGED << store, now, nextAddr, coordinator, calls >>

\* resetPassword: nothing is stored on either side of its await
resetPassword(token, newPassword, resp) ==
    /\ IF Truthy(token) /\ Truthy(newPassword) /\ validatePassword(newPassword)
       THEN last' = Answered("resetPassword", resp)
       ELSE last' = [Step("resetPassword", "error") EXCEPT !.valid = FALSE]
    /\ UNCHANGED << store, now, nextAddr, coordinator, calls >>

\* changePassword: the session is required before the input is looked at;
\* nothing is stored on either side of its await
changePassword(currentPassword, newPassword, resp) ==
    /\ LET ok == /\ Truthy(currentPassword) /\ Truthy(newPassword)
                 /\ validatePassword(newPassword)
       IN IF getToken = NoToken
          THEN last' = [Step("changePassword", "error") EXCEPT !.valid = ok]
          ELSE IF ok
          THEN last' = Answered("changePassword", resp)
          ELSE last' = [Step("changePassword", "error") EXCEPT !.valid = FALSE]
    /\ UNCHANGED << store, now, nextAddr, coordinator, calls >>

\* A caller asks isAuthenticated()
isAuthenticated_Call ==
    /\ last' = [Step("isAuthenticated", "ok") EXCEPT !.result = isAuthenticated]
    /\ UNCHANGED << store, now, nextAddr, coordinator, calls >>

\* AuthStateManager.handleAuthError(error)
handleAuthError(is401) ==
    /\ IF is401
       THEN clearAuthData
       ELSE UNCHANGED session
    /\ last' = [Step("handleAuthError", IF is401 THEN "ok" ELSE "none") EXCEPT !.had = Had]
    /\ UNCHANGED << user_addresses, now, nextAddr, coordinator, calls >>

(* --------------------- AuthStateManager: requireAuth ------------------- *)

\* window.location.pathname + window.location.search of the protected page
Location == << "/", "p", "?", "t", "=", "1" >>

\* The redirectUrl arguments: omitted (null; the empty string is falsy too),
\* and addresses with the characters that delimit a query string
RedirectUrls ==
    { << >>,
      << "/", "c" >>,
      << "/", "c", "?", "a", "=", "b", "&", "d", "=", "1", "0", "%" >> }

\* The characters encodeURIComponent escapes, with their escapes, among those
\* of the addresses above
Escapes ==
    [c \in {"/", "?", "=", "&", "%"} |->
        CASE c = "/" -> << "%", "2", "F" >>
          [] c = "?" -> << "%", "3", "F" >>
          [] c = "=" -> << "%", "3", "D" >>
          [] c = "&" -> << "%", "2", "6" >>
          [] c = "%" -> << "%", "2", "5" >>]

\* encodeURI: it leaves the characters that have a meaning in an address
\* ("/", "?", "=", "&") as they are
RECURSIVE encodeURI(_)
encodeURI(str) ==
    IF str = << >> THEN << >>
    ELSE (IF Head(str) = "%" THEN Escapes[Head(str)] ELSE << Head(str) >>)
         \o encodeURI(Tail(str))

\* encodeURIComponent
RECURSIVE encodeURIComponent(_)
encodeURIComponent(str) ==
    IF str = << >> THEN << >>
    ELSE (IF Head(str) \in DOMAIN Escapes THEN Escapes[Head(str)] ELSE << Head(str) >>)
         \o encodeURIComponent(Tail(str))

\* `login.html?redirect=`
LoginRedirect ==
    << "l", "o", "g", "i", "n", ".", "h", "t", "m", "l", "?",
       "r", "e", "d", "i", "r", "e", "c", "t", "=" >>

\* AuthStateManager.requireAuth(redirectUrl), also protectRoute() (no argument)
requireAuth(redirectUrl) ==
    /\ IF ~isAuthenticated
       THEN LET currentUrl == IF Truthy(redirectUrl) THEN redirectUrl ELSE Location
            IN last' = [Step("requireAuth", "ok") EXCEPT
                           !.result = FALSE,
                           !.redirect = TRUE,
                           !.target = LoginRedirect \o encodeURIComponent(currentUrl)]
       ELSE last' = [Step("requireAuth", "ok") EXCEPT !.result = TRUE]
    /\ UNCHANGED << store, now, nextAddr, coordinator, calls >>

\* Time passes, up to the instant at which the refresh timer is due
TickUntil(limit) ==
    /\ now < limit
    /\ now < nextCheck
    /\ now' = now + 1
    /\ last' = Step("tick", "none")
    /\ UNCHANGED << store, nextAddr, coordinator, calls >>

Tick == TickUntil(MaxTime)

(* ----------------------------- UserService ----------------------------- *)

\* A cached address: its id, one of its descriptive fields, and the flag.
\* JSON.stringify writes an undefined array element as null: NullEntry.
Entry(id, addressType, isDefault) ==
    [id |-> id, addressType |-> addressType, isDefault |-> isDefault]
NullEntry == Entry(0, "null", FALSE)

\* The collection the gateway lists: addr_1 (home, default) and addr_2 (work)
ListedAddresses == << Entry(1, "home", TRUE), Entry(2, "work", FALSE) >>

\* The collection a mutation works on, taken from the gateway's listing
\* instead of being read from the cache when the answer arrives
cachedOrEmpty_Listed == ListedAddresses

\* UserService.getCachedAddresses() || []
cachedOrEmpty == IF user_addresses.cached THEN user_addresses.list ELSE << >>

\* UserService.cacheAddresses
cacheAddresses(addresses) == user_addresses' = [cached |-> TRUE, list |-> addresses]

HasNull(list) == \E i \in 1 .. Len(list) : list[i] = NullEntry

\* Array.prototype.findIndex(addr => addr.id === addressId): the first place
\* that holds the id, 0 when there is none; reading .id of a null element
\* that comes before it throws (-1).
findIndex(list, addressId) ==
    LET hits == { i \in 1 .. Len(list) : list[i] = NullEntry \/ list[i].id = addressId }
        first == CHOOSE i \in hits : \A j \in hits : i <= j
    IN IF hits = {} THEN 0
       ELSE IF list[first] = NullEntry THEN -1
       ELSE first

\* Array.prototype.filter(addr => addr.id !== addressId)
RECURSIVE filterOut(_, _)
filterOut(list, addressId) ==
    IF list = << >> THEN << >>
    ELSE IF Head(list).id = addressId THEN filterOut(Tail(list), addressId)
    ELSE << Head(list) >> \o filterOut(Tail(list), addressId)

\* setDefaultAddress that only raises the flag of the target
markDefault_TargetOnly(list, addressId) ==
    [i \in 1 .. Len(list) |->
        IF list[i].id = addressId THEN [list[i] EXCEPT !.isDefault = TRUE] ELSE list[i]]

\* addresses.forEach(addr => { addr.isDefault = addr.id === addressId })
markDefault(list, addressId) ==
    [i \in 1 .. Len(list) |-> [list[i] EXCEPT !.isDefault = (list[i].id = addressId)]]

DefaultIds(list) == { list[i].id : i \in { j \in 1 .. Len(list) : list[j].isDefault } }

\* An address form.  Required text fields, the zip code and the phone are
\* strings; addressType and isDefault may be left out ("undefined").
Str_John_Doe == << "J", "o", "h", "n", " ", "D", "o", "e" >>
Str_10001 == << "1", "0", "0", "0", "1" >>
Str_phone == << "+", "1", "2", "3", "4", "5", "6", "7", "8", "9", "0" >>

ValidAddress ==
    [fullName |-> Str_John_Doe, addressLine1 |-> << "1", " ", "M", "a", "i", "n" >>,
     city |-> << "N", "Y" >>, state |-> << "N", "Y" >>, zipCode |-> Str_10001,
     country |-> << "U", "S", "A" >>, phone |-> Str_phone,
     addressType |-> "undefined", isDefault |-> "undefined"]

RequiredFields == << "fullName", "addressLine1", "city", "state", "zipCode", "country", "phone" >>

\* UserService.validateAddressData: threw, or the fields of the validated
\* record that the cache entries keep
validateAddressData(data) ==
    LET missing == \E i \in 1 .. Len(RequiredFields) :
                       \/ ~Truthy(data[RequiredFields[i]])
                       \/ trim(data[RequiredFields[i]]) = << >>
    IN IF missing \/ ~validateZip(data.zipCode) \/ ~validatePhone(data.phone)
       THEN [threw |-> TRUE, addressType |-> "none", isDefault |-> FALSE]
       ELSE [threw |-> FALSE,
             addressType |-> IF data.addressType = "undefined" THEN "home" ELSE data.addressType,
             isDefault |-> (data.isDefault = "true")]

\* Every address form the specifications submit, and what validateAddressData
\* makes of each (computed once)
AddressForms ==
    { [ValidAddress EXCEPT !.isDefault = d] : d \in {"undefined", "true"} }

AddressInputs ==
    AddressForms
    \cup { [ValidAddress EXCEPT !.addressType = "work", !.isDefault = "false"] }
    \cup { [ValidAddress EXCEPT ![RequiredFields[i]] = v] :
              i \in 1 .. Len(RequiredFields), v \in { << >>, << " " >> } }
    \cup { [ValidAddress EXCEPT !.zipCode = z] :
              z \in { << "1", "2", "3", "4" >>, Str_10001 \o << "-", "1", "2", "3", "4" >>,
                      << " " >> \o Str_10001 } }
    \cup { [ValidAddress EXCEPT !.phone = ph] :
              ph \in { << "p", "h", "o", "n", "e" >>, << "5", "5", "5", "-", "1", "2", "3", "4" >> } }

validated == [data \in AddressInputs |-> validateAddressData(data)]

\* listAddresses up to its await: the cache is read before the request
listAddresses_Start ==
    /\ Free
    /\ IF getToken = NoToken
       THEN /\ UNCHANGED calls
            /\ last' = NotAuthenticated("listAddresses")
       ELSE /\ Await([Call("listAddresses") EXCEPT !.hadCache = user_addresses.cached])
            /\ last' = [Step("listAddresses", "pending") EXCEPT !.gw = 1]
    /\ UNCHANGED << store, now, nextAddr, coordinator >>

\* listAddresses after its await.  A request that throws is rethrown; an
\* answer with success false falls back to the cache read at the start.
listAddresses_Resume(resp) ==
    \E call \in Pending("listAddresses") :
        /\ Done(call)
        /\ IF resp = "ok"
           THEN /\ cacheAddresses(ListedAddresses)
                /\ last' = Step("listAddresses", "ok")
           ELSE /\ UNCHANGED user_addresses
                /\ last' = IF resp = "reject" /\ call.hadCache
                           THEN [Step("listAddresses", "ok") EXCEPT !.result = TRUE]
                           ELSE GatewayError("listAddresses")
        /\ UNCHANGED << session, now, nextAddr, coordinator >>

\* addAddress up to its await
addAddress_Start(addressData) ==
    /\ Free
    /\ nextAddr <= MaxAddrId
    /\ LET validatedAddress == validated[addressData]
       IN IF getToken = NoToken
          THEN /\ UNCHANGED calls
               /\ last' = [NotAuthenticated("addAddress") EXCEPT !.valid = ~validatedAddress.threw]
          ELSE IF validatedAddress.threw
          THEN /\ UNCHANGED calls
               /\ last' = [Step("addAddress", "error") EXCEPT !.valid = FALSE]
          ELSE /\ Await([Call("addAddress") EXCEPT !.addressType = validatedAddress.addressType,
                                                  !.isDefault = validatedAddress.isDefault])
               /\ last' = [Step("addAddress", "pending") EXCEPT !.gw = 1]
    /\ UNCHANGED << store, now, nextAddr, coordinator >>

\* addAddress after its await: the gateway's record is the validated fields
\* under a new id
addAddress_Resume(resp) ==
    \E call \in Pending("addAddress") :
        /\ Done(call)
        /\ IF resp = "ok" /\ nextAddr <= MaxAddrId
           THEN LET address == Entry(nextAddr, call.addressType, call.isDefault)
                IN /\ cacheAddresses(Append(cachedOrEmpty, address))
                   /\ nextAddr' = nextAddr + 1
                   /\ last' = [Step("addAddress", "ok") EXCEPT
                                  !.id = address.id, !.events = << "addressAdded" >>,
                                  !.seen = AtDispatch({"user_addresses"})]
           ELSE /\ UNCHANGED << user_addresses, nextAddr >>
                /\ last' = GatewayError("addAddress")
        /\ UNCHANGED << session, now, coordinator >>

\* updateAddress up to its await
updateAddress_Start(addressId, addressData) ==
    /\ Free
    /\ LET validatedAddress == validated[addressData]
       IN IF getToken = NoToken
          THEN /\ UNCHANGED calls
               /\ last' = [NotAuthenticated("updateAddress") EXCEPT !.valid = ~validatedAddress.threw]
          ELSE IF addressId = 0
          THEN /\ UNCHANGED calls
               /\ last' = [Step("updateAddress", "error") EXCEPT !.valid = ~validatedAddress.threw]
          ELSE IF validatedAddress.threw
          THEN /\ UNCHANGED calls
               /\ last' = [Step("updateAddress", "error") EXCEPT !.valid = FALSE]
          ELSE /\ Await([Call("updateAddress") EXCEPT !.id = addressId,
                                                     !.addressType = validatedAddress.addressType,
                                                     !.isDefault = validatedAddress.isDefault])
               /\ last' = [Step("updateAddress", "pending") EXCEPT !.gw = 1]
    /\ UNCHANGED << store, now, nextAddr, coordinator >>

\* updateAddress after its await.  The gateway's answer carries the updated
\* record; the answer of the mock ({success, message}) carries none, and
\* response.address is then undefined.
updateAddress_Resume(resp, withAddress) ==
    \E call \in Pending("updateAddress") :
        /\ Done(call)
        /\ LET address == IF withAddress
                          THEN Entry(call.id, call.addressType, call.isDefault)
                          ELSE NullEntry
               addresses == cachedOrEmpty
               index == findIndex(addresses, call.id)
           IN IF resp # "ok" \/ index = -1
              THEN /\ UNCHANGED user_addresses
                   /\ last' = IF resp # "ok" THEN GatewayError("updateAddress")
                              ELSE TypeError("updateAddress")
              ELSE /\ IF index # 0
                      THEN cacheAddresses([addresses EXCEPT ![index] = address])
                      ELSE UNCHANGED user_addresses
                   /\ last' = [Step("updateAddress", "ok") EXCEPT
                                  !.id = call.id, !.events = << "addressUpdated" >>,
                                  !.seen = AtDispatch({"user_addresses"})]
        /\ UNCHANGED << session, now, nextAddr, coordinator >>

\* deleteAddress up to its await
deleteAddress_Start(addressId) ==
    /\ Free
    /\ IF getToken = NoToken
       THEN /\ UNCHANGED calls
            /\ last' = NotAuthenticated("deleteAddress")
       ELSE IF addressId = 0
       THEN /\ UNCHANGED calls
            /\ last' = Step("deleteAddress", "error")
       ELSE /\ Await([Call("deleteAddress") EXCEPT !.id = addressId])
            /\ last' = [Step("deleteAddress", "pending") EXCEPT !.gw = 1]
    /\ UNCHANGED << store, now, nextAddr, coordinator >>

\* deleteAddress after its await: the filter reads .id of every element
deleteAddress_Resume(resp) ==
    \E call \in Pending("deleteAddress") :
        /\ Done(call)
        /\ IF resp # "ok" \/ HasNull(cachedOrEmpty)
           THEN /\ UNCHANGED user_addresses
                /\ last' = IF resp # "ok" THEN GatewayError("deleteAddress")
                           ELSE TypeError("deleteAddress")
           ELSE /\ cacheAddresses(filterOut(cachedOrEmpty, call.id))
                /\ last' = [Step("deleteAddress", "ok") EXCEPT
                               !.id = call.id, !.events = << "addressDeleted" >>,
                                  !.seen = AtDispatch({"user_addresses"})]
        /\ UNCHANGED << session, now, nextAddr, coordinator >>

\* setDefaultAddress up to its await
setDefaultAddress_Start(addressId) ==
    /\ Free
    /\ IF getToken = NoToken
       THEN /\ UNCHANGED calls
            /\ last' = NotAuthenticated("setDefaultAddress")
       ELSE IF addressId = 0
       THEN /\ UNCHANGED calls
            /\ last' = Step("setDefaultAddress", "error")
       ELSE /\ Await([Call("setDefaultAddress") EXCEPT !.id = addressId])
            /\ last' = [Step("setDefaultAddress", "pending") EXCEPT !.gw = 1]
    /\ UNCHANGED << store, now, nextAddr, coordinator >>

\* setDefaultAddress after its await: the loop writes .isDefault of every
\* element, and the cache is written after the loop
setDefaultAddress_Resume(resp) ==
    \E call \in Pending("setDefaultAddress") :
        /\ Done(call)
        /\ IF resp # "ok" \/ HasNull(cachedOrEmpty)
           THEN /\ UNCHANGED user_addresses
                /\ last' = IF resp # "ok" THEN GatewayError("setDefaultAddress")
                           ELSE TypeError("setDefaultAddress")
           ELSE /\ cacheAddresses(markDefault(cachedOrEmpty, call.id))
                /\ last' = [Step("setDefaultAddress", "ok") EXCEPT
                               !.id = call.id, !.prevDefault = DefaultIds(cachedOrEmpty)]
        /\ UNCHANGED << session, now, nextAddr, coordinator >>

(* ------------------------ UserService: the profile --------------------- *)

\* The user record of the gateway's profile answers
ProfileUser ==
    [id |-> "user_123", phone |-> "+1234567890", avatar |-> "https://via.placeholder.com/150"]

Str_phone2 == << "+", "1", "9", "8", "7", "6", "5", "4", "3", "2", "1" >>

\* A phone number as the user record holds it
PhoneOf(phone) ==
    IF phone = Str_phone THEN "+1234567890"
    ELSE IF phone = Str_phone2 THEN "+1987654321"
    ELSE "other"

\* A profile form; a field left out is the empty string
NoProfileData == [firstName |-> << >>, lastName |-> << >>, email |-> << >>, phone |-> << >>]

\* UserService.validateProfileData: threw, or the phone of the validated record
validateProfileData(data) ==
    IF \/ Truthy(data.firstName) /\ Len(data.firstName) < 2
       \/ Truthy(data.lastName) /\ Len(data.lastName) < 2
       \/ Truthy(data.email) /\ ~validateEmail(data.email)
       \/ Truthy(data.phone) /\ ~validatePhone(data.phone)
    THEN [threw |-> TRUE, phone |-> "none"]
    ELSE [threw |-> FALSE,
          phone |-> IF Truthy(data.phone) THEN PhoneOf(trim(data.phone)) ELSE "none"]

ProfileInputs ==
    { NoProfileData,
      [NoProfileData EXCEPT !.phone = Str_phone2],
      [NoProfileData EXCEPT !.phone = << "p", "h", "o", "n", "e" >>],
      [NoProfileData EXCEPT !.firstName = << "A" >>],
      [NoProfileData EXCEPT !.lastName = << "B" >>],
      [NoProfileData EXCEPT !.email = Str_bad_email] }

validatedProfile == [data \in ProfileInputs |-> validateProfileData(data)]

\* getUserProfile up to its await: the cached user is read before the request
getUserProfile_Start ==
    /\ Free
    /\ IF getToken = NoToken
       THEN /\ UNCHANGED calls
            /\ last' = NotAuthenticated("getUserProfile")
       ELSE /\ Await([Call("getUserProfile") EXCEPT !.hadCache = (getCurrentUser # NoUser)])
            /\ last' = [Step("getUserProfile", "pending") EXCEPT !.gw = 1]
    /\ UNCHANGED << store, now, nextAddr, coordinator >>

\* getUserProfile after its await.  A request that throws is rethrown; an
\* answer with success false falls back to the user read at the start.
getUserProfile_Resume(resp) ==
    \E call \in Pending("getUserProfile") :
        /\ Done(call)
        /\ IF resp = "ok"
           THEN /\ setUserData(ProfileUser)
                /\ last' = Step("getUserProfile", "ok")
           ELSE /\ UNCHANGED user_data
                /\ last' = IF resp = "reject" /\ call.hadCache
                           THEN [Step("getUserProfile", "ok") EXCEPT !.result = TRUE]
                           ELSE GatewayError("getUserProfile")
        /\ UNCHANGED << auth_token, refresh_token, pending_registration, user_addresses,
                        now, nextAddr, coordinator >>

\* updateUserProfile up to its await
updateUserProfile_Start(profileData) ==
    /\ Free
    /\ LET validatedData == validatedProfile[profileData]
       IN IF getToken = NoToken
          THEN /\ UNCHANGED calls
               /\ last' = [NotAuthenticated("updateUserProfile") EXCEPT
                              !.valid = ~validatedData.threw]
          ELSE IF validatedData.threw
          THEN /\ UNCHANGED calls
               /\ last' = [Step("updateUserProfile", "error") EXCEPT !.valid = FALSE]
          ELSE /\ Await([Call("updateUserProfile") EXCEPT !.phone = validatedData.phone])
               /\ last' = [Step("updateUserProfile", "pending") EXCEPT !.gw = 1]
    /\ UNCHANGED << store, now, nextAddr, coordinator >>

\* updateUserProfile writing the submitted fields to the cached record before
\* it looks at response.success
updateUserProfile_Optimistic(resp) ==
    \E call \in Pending("updateUserProfile") :
        /\ Done(call)
        /\ setUserData(IF call.phone = "none" THEN ProfileUser
                       ELSE [ProfileUser EXCEPT !.phone = call.phone])
        /\ last' = IF resp = "ok"
                   THEN [Step("updateUserProfile", "ok") EXCEPT
                            !.events = << "profileUpdated" >>,
                               !.seen = AtDispatch({"user_data"})]
                   ELSE GatewayError("updateUserProfile")
        /\ UNCHANGED << auth_token, refresh_token, pending_registration, user_addresses,
                        now, nextAddr, coordinator >>

\* updateUserProfile after its await: the gateway's record is its own with the
\* submitted fields over it
updateUserProfile_Resume(resp) ==
    \E call \in Pending("updateUserProfile") :
        /\ Done(call)
        /\ IF resp = "ok"
           THEN /\ setUserData(IF call.phone = "none" THEN ProfileUser
                               ELSE [ProfileUser EXCEPT !.phone = call.phone])
                /\ last' = [Step("updateUserProfile", "ok") EXCEPT
                               !.events = << "profileUpdated" >>,
                               !.seen = AtDispatch({"user_data"})]
           ELSE /\ UNCHANGED user_data
                /\ last' = GatewayError("updateUserProfile")
        /\ UNCHANGED << auth_token, refresh_token, pending_registration, user_addresses,
                        now, nextAddr, coordinator >>

\* The files updateProfilePicture is called with: none, one that is no image,
\* an image over 5 MB, an image
ImageInputs == {"null", "text/plain", "image/large", "image/png"}

\* updateProfilePicture up to its await
updateProfilePicture_Start(imageFile) ==
    /\ Free
    /\ IF getToken = NoToken
       THEN /\ UNCHANGED calls
            /\ last' = [NotAuthenticated("updateProfilePicture") EXCEPT
                           !.valid = (imageFile = "image/png")]
       ELSE IF imageFile # "image/png"
       THEN /\ UNCHANGED calls
            /\ last' = [Step("updateProfilePicture", "error") EXCEPT !.valid = FALSE]
       ELSE /\ Await(Call("updateProfilePicture"))
            /\ last' = [Step("updateProfilePicture", "pending") EXCEPT !.gw = 1]
    /\ UNCHANGED << store, now, nextAddr, coordinator >>

\* updateProfilePicture after its await.  The avatar is written into the user
\* read from the store now; with no user stored, currentUser.avatar = ... throws.
\* The answer of the mock ({success, message}) carries no avatarUrl.
updateProfilePicture_Resume(resp, withUrl) ==
    \E call \in Pending("updateProfilePicture") :
        /\ Done(call)
        /\ IF resp = "ok" /\ getCurrentUser # NoUser
           THEN /\ setUserData([getCurrentUser EXCEPT
                                   !.avatar = IF withUrl THEN "avatar_url" ELSE "undefined"])
                /\ last' = Step("updateProfilePicture", "ok")
           ELSE /\ UNCHANGED user_data
                /\ last' = IF resp = "ok"
                           THEN TypeError("updateProfilePicture")
                           ELSE GatewayError("updateProfilePicture")
        /\ UNCHANGED << auth_token, refresh_token, pending_registration, user_addresses,
                        now, nextAddr, coordinator >>

\* deleteAccount up to its await
deleteAccount_Start(password) ==
    /\ Free
    /\ IF getToken = NoToken
       THEN /\ UNCHANGED calls
            /\ last' = [NotAuthenticated("deleteAccount") EXCEPT !.valid = Truthy(password)]
       ELSE IF ~Truthy(password)
       THEN /\ UNCHANGED calls
            /\ last' = [Step("deleteAccount", "error") EXCEPT !.valid = FALSE]
       ELSE /\ Await(Call("deleteAccount"))
            /\ last' = [Step("deleteAccount", "pending") EXCEPT !.gw = 1]
    /\ UNCHANGED << store, now, nextAddr, coordinator >>

\* deleteAccount when the gateway has answered the deletion.  On success it
\* awaits logoutUser(), which awaits the gateway when a token is stored and
\* otherwise runs to its end.
deleteAccount_Resume(resp) ==
    \E call \in Pending("deleteAccount") :
        /\ IF resp # "ok"
           THEN /\ Done(call)
                /\ UNCHANGED store
                /\ last' = [GatewayError("deleteAccount") EXCEPT !.had = Had]
           ELSE IF getToken # NoToken
           THEN /\ calls' = (calls (-) SetToBag({call})) (+) SetToBag({Call("deleteAccount_logout")})
                /\ UNCHANGED store
                /\ last' = [Step("deleteAccount", "pending") EXCEPT !.gw = 1]
           ELSE /\ Done(call)
                /\ clearAuthData
                /\ dispatchEvents(<< "userLoggedOut" >>)
                /\ last' = [Step("deleteAccount", "ok") EXCEPT
                               !.events = << "userLoggedOut" >>, !.had = Had,
                               !.seen = AtDispatch(SessionItems)]
        /\ UNCHANGED << now, nextAddr, coordinator >>

\* deleteAccount when the gateway has answered the logout it awaits: a logout
\* that throws (its catch block has cleared the data) makes deleteAccount throw
deleteAccount_Logout(resp) ==
    \E call \in Pending("deleteAccount_logout") :
        /\ Done(call)
        /\ clearAuthData
        /\ IF resp # "throw"
           THEN /\ dispatchEvents(<< "userLoggedOut" >>)
                /\ last' = [Step("deleteAccount", "ok") EXCEPT
                               !.events = << "userLoggedOut" >>, !.had = Had,
                               !.seen = AtDispatch(SessionItems)]
           ELSE /\ UNCHANGED user_addresses
                /\ last' = [GatewayError("deleteAccount") EXCEPT !.had = Had]
        /\ UNCHANGED << now, nextAddr, coordinator >>

(* ---------------------- UserService: address reads --------------------- *)

\* getAddress up to its await
getAddress_Start(addressId) ==
    /\ Free
    /\ IF getToken = NoToken
       THEN /\ UNCHANGED calls
            /\ last' = NotAuthenticated("getAddress")
       ELSE /\ Await([Call("getAddress") EXCEPT !.id = addressId])
            /\ last' = [Step("getAddress", "pending") EXCEPT !.gw = 1]
    /\ UNCHANGED << store, now, nextAddr, coordinator >>

\* getAddress after its await: the answer goes to the caller, nothing is cached
getAddress_Resume(resp) ==
    \E call \in Pending("getAddress") :
        /\ Done(call)
        /\ last' = IF resp = "ok" THEN [Step("getAddress", "ok") EXCEPT !.id = call.id]
                   ELSE GatewayError("getAddress")
        /\ UNCHANGED << store, now, nextAddr, coordinator >>

\* addresses.find(addr => addr.isDefault): an entry is found, none is, or the
\* read of .isDefault of a null element that comes first throws
findDefault(list) ==
    LET hits == { i \in 1 .. Len(list) : list[i] = NullEntry \/ list[i].isDefault }
        first == CHOOSE i \in hits : \A j \in hits : i <= j
    IN IF hits = {} THEN "none"
       ELSE IF list[first] = NullEntry THEN "throws"
       ELSE "found"

\* getDefaultAddress without its token check: the request is issued whatever
\* the token store holds
getDefaultAddress_Unguarded ==
    /\ Free
    /\ Await([Call("getDefaultAddress") EXCEPT
                 !.hadCache = user_addresses.cached,
                 !.found = findDefault(cachedOrEmpty)])
    /\ last' = [Step("getDefaultAddress", "pending") EXCEPT !.gw = 1]
    /\ UNCHANGED << store, now, nextAddr, coordinator >>

\* getDefaultAddress up to the await of the listAddresses() it calls
getDefaultAddress_Start ==
    /\ Free
    /\ IF getToken = NoToken
       THEN /\ UNCHANGED calls
            /\ last' = NotAuthenticated("getDefaultAddress")
       ELSE /\ Await([Call("getDefaultAddress") EXCEPT
                         !.hadCache = user_addresses.cached,
                         !.found = findDefault(cachedOrEmpty)])
            /\ last' = [Step("getDefaultAddress", "pending") EXCEPT !.gw = 1]
    /\ UNCHANGED << store, now, nextAddr, coordinator >>

\* getDefaultAddress after that await: the default is looked up in what
\* listAddresses() returned, the gateway's list or the cache read at the start
getDefaultAddress_Resume(resp) ==
    \E call \in Pending("getDefaultAddress") :
        /\ Done(call)
        /\ IF resp = "ok"
           THEN /\ cacheAddresses(ListedAddresses)
                /\ last' = [Step("getDefaultAddress", "ok") EXCEPT
                               !.result = (findDefault(ListedAddresses) = "found")]
           ELSE /\ UNCHANGED user_addresses
                /\ last' = IF resp = "reject" /\ call.hadCache
                           THEN IF call.found = "throws" THEN TypeError("getDefaultAddress")
                                ELSE [Step("getDefaultAddress", "ok") EXCEPT
                                         !.result = (call.found = "found")]
                           ELSE GatewayError("getDefaultAddress")
        /\ UNCHANGED << session, now, nextAddr, coordinator >>

(* --------------------------- the session spec -------------------------- *)

\* A freshly loaded page with empty storage
Init ==
    /\ auth_token = NoToken
    /\ refresh_token = NoRefresh
    /\ user_data = NoUser
    /\ pending_registration = NoPending
    /\ user_addresses = NoCache
    /\ now = 0
    /\ nextAddr = 3
    /\ calls = EmptyBag
    /\ listeners = << >>
    /\ nextCheck = RefreshEvery
    /\ last = Step("init", "none")

\* The session operations, each called as documented or as in the scenarios
\* (Scenario B's registration, Scenario C's five-digit code, a malformed email)
NextAuth ==
    \/ \E userData \in {ValidRegistration, ScenarioBRegistration} : registerUser_Start(userData)
    \/ \E resp \in Responses : registerUser_Resume(resp)
    \/ \E otp \in {Str_12345, Str_123456} : verifyOtp_Start(Str_userId, otp)
    \/ \E resp \in Responses : verifyOtp_Resume(resp)
    \/ \E email \in {Str_bad_email, Str_user_example_com} : loginUser_Start(email, Str_SecurePass123)
    \/ \E resp \in Responses : loginUser_Resume(resp)
    \/ logoutUser_Start
    \/ \E resp \in Responses : logoutUser_Resume(resp)
    \/ refreshToken_Start
    \/ \E resp \in Responses : refreshToken_Resume(resp)
    \/ isAuthenticated_Call
    \/ \E redirectUrl \in RedirectUrls : requireAuth(redirectUrl)
    \/ \E is401 \in BOOLEAN : handleAuthError(is401)
    \/ Tick

SpecAuth == Init /\ [][NextAuth]_vars

(* ---------------------------- the address spec ------------------------- *)

\* A signed-in session: what a successful login has stored
InitAddr ==
    /\ auth_token = Jwt(TokenLife)
    /\ refresh_token = "mock_refresh_token"
    /\ user_data = LoginUser
    /\ pending_registration = NoPending
    /\ user_addresses = NoCache
    /\ now = 0
    /\ nextAddr = 3
    /\ calls = EmptyBag
    /\ listeners = << >>
    /\ nextCheck = RefreshEvery
    /\ last = Step("init", "none")

\* The ids the operations are called with: the empty id, the two listed
\* addresses and, for setDefaultAddress, the first added one
ListedIds == {0, 1, 2}
AddressIds == ListedIds \cup {3}

NextAddr ==
    \/ listAddresses_Start
    \/ \E resp \in Responses : listAddresses_Resume(resp)
    \/ \E addressData \in AddressForms : addAddress_Start(addressData)
    \/ \E resp \in Responses : addAddress_Resume(resp)
    \/ \E addressId \in ListedIds, addressData \in AddressForms :
          updateAddress_Start(addressId, addressData)
    \/ \E resp \in Responses, withAddress \in BOOLEAN : updateAddress_Resume(resp, withAddress)
    \/ \E addressId \in ListedIds : deleteAddress_Start(addressId)
    \/ \E resp \in Responses : deleteAddress_Resume(resp)
    \/ \E addressId \in AddressIds : setDefaultAddress_Start(addressId)
    \/ \E resp \in Responses : setDefaultAddress_Resume(resp)

SpecAddr == InitAddr /\ [][NextAddr]_vars

(* --------------------- AuthStateManager: listeners --------------------- *)

\* The callbacks handed to addListener: two that return and one that throws
Callbacks == {"onChange", "onAudit", "onBroken"}
Throws(callback) == callback = "onBroken"

\* addListener(callback); a value that is no function is ignored
addListener(callback) ==
    /\ Len(listeners) < MaxListeners
    /\ listeners' = IF callback \in Callbacks THEN Append(listeners, callback)
                    ELSE listeners
    /\ last' = Step("addListener", "ok")
    /\ UNCHANGED << store, now, nextAddr, calls, nextCheck >>

\* this.listeners.filter(cb => cb !== callback)
RECURSIVE withoutCallback(_, _)
withoutCallback(list, callback) ==
    IF list = << >> THEN << >>
    ELSE IF Head(list) = callback THEN withoutCallback(Tail(list), callback)
    ELSE << Head(list) >> \o withoutCallback(Tail(list), callback)

\* removeListener(callback)
removeListener(callback) ==
    /\ listeners' = withoutCallback(listeners, callback)
    /\ last' = Step("removeListener", "ok")
    /\ UNCHANGED << store, now, nextAddr, calls, nextCheck >>

\* A forEach over the listeners that stops at the first callback that throws
\* and lets the exception out
RECURSIVE notifyListeners_NoCatch(_)
notifyListeners_NoCatch(list) ==
    IF list = << >> THEN [called |-> << >>, threw |-> FALSE]
    ELSE IF Throws(Head(list)) THEN [called |-> << Head(list) >>, threw |-> TRUE]
    ELSE LET rest == notifyListeners_NoCatch(Tail(list))
         IN [called |-> << Head(list) >> \o rest.called, threw |-> rest.threw]

\* notifyListeners(state): forEach calls the callbacks in the order of the
\* array; what a callback throws is caught and logged inside the loop
RECURSIVE notifyListeners(_)
notifyListeners(list) ==
    IF list = << >> THEN [called |-> << >>, threw |-> FALSE]
    ELSE LET rest == notifyListeners(Tail(list))
         IN [called |-> << Head(list) >> \o rest.called, threw |-> rest.threw]

\* A call of updateAuthState(): the snapshot is computed and handed to the
\* listeners
updateAuthState_Call ==
    /\ LET notified == notifyListeners(listeners)
       IN last' = [Step("updateAuthState", IF notified.threw THEN "error" ELSE "ok") EXCEPT
                      !.delivered = notified.called,
                      !.result = updateAuthState.isAuthenticated,
                      !.had = Had]
    /\ UNCHANGED << store, now, nextAddr, calls, coordinator >>

(* ------------------- AuthStateManager: token refresh ------------------- *)

\* The access token of a gateway that issues the sixty-minute tokens
\* setupTokenRefresh is written for
HourTokens == {Jwt(now + AssumedTokenLife)}

\* What refreshTokenIfNeeded has done when a refresh it awaited threw:
\* refreshToken's catch block has cleared the data and set the location, and
\* the logoutUser() of its own catch block, finding no token, has issued no
\* request, cleared again and dispatched 'userLoggedOut'
refreshTokenIfNeeded_Catch ==
    /\ clearAuthData
    /\ dispatchEvents(<< "userLoggedOut" >>)
    /\ last' = [Step("refreshTokenIfNeeded", "ok") EXCEPT
                   !.events = << "userLoggedOut" >>, !.redirect = TRUE, !.had = Had,
                   !.seen = AtDispatch(SessionItems)]

\* The interval timer of setupTokenRefresh fires: refreshTokenIfNeeded up to
\* its await, or to its end when nothing is awaited
refreshTokenIfNeeded_Start ==
    /\ now = nextCheck
    /\ nextCheck' = nextCheck + RefreshEvery
    /\ IF ~isAuthenticated
       THEN /\ last' = Step("refreshTokenIfNeeded", "ok")
            /\ UNCHANGED << store, calls >>
       ELSE LET payload == parseJwt(getToken)
                timeUntilExpiry == payload.exp - now
            IN IF timeUntilExpiry < RefreshThreshold
               THEN IF getRefreshToken # NoRefresh
                    THEN /\ Await(Call("refreshTokenIfNeeded"))
                         /\ last' = [Step("refreshTokenIfNeeded", "pending") EXCEPT !.gw = 1]
                         /\ UNCHANGED store
                    ELSE /\ refreshTokenIfNeeded_Catch
                         /\ UNCHANGED calls
               ELSE /\ last' = Step("refreshTokenIfNeeded", "ok")
                    /\ UNCHANGED << store, calls >>
    /\ UNCHANGED << now, nextAddr, listeners >>

\* refreshTokenIfNeeded whose failed refresh leaves the stored session alone
refreshTokenIfNeeded_KeepsSession(resp, tokens) ==
    \E call \in Pending("refreshTokenIfNeeded") :
        /\ Done(call)
        /\ IF resp = "ok"
           THEN \E token \in tokens, refreshToken \in IssuedRefresh("new_mock_refresh_token") :
                   /\ setTokens(token, refreshToken)
                   /\ UNCHANGED << user_data, pending_registration, user_addresses >>
                   /\ last' = [Step("refreshTokenIfNeeded", "ok") EXCEPT !.result = TRUE]
           ELSE /\ UNCHANGED store
                /\ last' = [Step("refreshTokenIfNeeded", "ok") EXCEPT !.redirect = TRUE, !.had = Had]
        /\ UNCHANGED << now, nextAddr, coordinator >>

\* refreshTokenIfNeeded after the await of refreshToken()
refreshTokenIfNeeded_Resume(resp, tokens) ==
    \E call \in Pending("refreshTokenIfNeeded") :
        /\ Done(call)
        /\ IF resp = "ok"
           THEN \E token \in tokens, refreshToken \in IssuedRefresh("new_mock_refresh_token") :
                   /\ setTokens(token, refreshToken)
                   /\ UNCHANGED << user_data, pending_registration, user_addresses >>
                   /\ last' = [Step("refreshTokenIfNeeded", "ok") EXCEPT !.result = TRUE]
           ELSE refreshTokenIfNeeded_Catch
        /\ UNCHANGED << now, nextAddr, coordinator >>

(* ---------------------------- the refresh spec ------------------------- *)

\* A session whose sixty-minute token was issued at instant 0, the interval
\* timer being due for the first time at any offset up to its period
InitRefresh ==
    /\ auth_token = Jwt(AssumedTokenLife)
    /\ refresh_token = "mock_refresh_token"
    /\ user_data = LoginUser
    /\ pending_registration = NoPending
    /\ user_addresses = NoCache
    /\ now = 0
    /\ nextAddr = 3
    /\ calls = EmptyBag
    /\ listeners = << >>
    /\ nextCheck \in 1 .. RefreshEvery
    /\ last = Step("init", "none")

NextRefresh ==
    \/ refreshTokenIfNeeded_Start
    \/ \E resp \in Responses : refreshTokenIfNeeded_Resume(resp, HourTokens)
    \/ loginUser_Start(Str_user_example_com, Str_SecurePass123)
    \/ \E resp \in Responses : loginUser_Answer(resp, HourTokens)
    \/ TickUntil(MaxRefreshTime)

SpecRefresh == InitRefresh /\ [][NextRefresh]_vars

(* -------------------------- the coordinator spec ----------------------- *)

\* The session operations together with the listeners of AuthStateManager
\* and the address cache it clears.  The handlers of 'userLoggedIn' and
\* 'userLoggedOut' (handleLogin, handleLogout) call neither updateAuthState nor
\* notifyListeners, so the steps that dispatch these events deliver nothing.
NextCoord ==
    \/ \E callback \in Callbacks \cup {"notAFunction"} : addListener(callback)
    \/ \E callback \in Callbacks : removeListener(callback)
    \/ updateAuthState_Call
    \/ loginUser_Start(Str_user_example_com, Str_SecurePass123)
    \/ \E resp \in Responses : loginUser_Resume(resp)
    \/ logoutUser_Start
    \/ \E resp \in Responses : logoutUser_Resume(resp)
    \/ refreshToken_Start
    \/ \E resp \in Responses : refreshToken_Resume(resp)
    \/ \E is401 \in BOOLEAN : handleAuthError(is401)
    \/ listAddresses_Start
    \/ \E resp \in Responses : listAddresses_Resume(resp)

SpecCoord == Init /\ [][NextCoord]_vars

(* ----------------------------- the user spec --------------------------- *)

\* A freshly loaded page whose storage holds a session, or holds none
InitUser ==
    /\ \/ auth_token = Jwt(TokenLife) /\ refresh_token = "mock_refresh_token"
          /\ user_data = LoginUser
       \/ auth_token = NoToken /\ refresh_token = NoRefresh /\ user_data = NoUser
    /\ pending_registration = NoPending
    /\ user_addresses = NoCache
    /\ now = 0
    /\ nextAddr = 3
    /\ calls = EmptyBag
    /\ listeners = << >>
    /\ nextCheck = RefreshEvery
    /\ last = Step("init", "none")

\* The profile forms submitted in the user spec: one that changes the phone
\* number and one that fails validation
UserProfileInputs ==
    { [NoProfileData EXCEPT !.phone = Str_phone2],
      [NoProfileData EXCEPT !.email = Str_bad_email] }

\* A further UserService call may be started
UserFree == BagCardinality(calls) < MaxUserCalls

\* Every operation of UserService
NextUser ==
    \/ UserFree /\ getUserProfile_Start
    \/ \E resp \in Responses : getUserProfile_Resume(resp)
    \/ \E profileData \in UserProfileInputs : UserFree /\ updateUserProfile_Start(profileData)
    \/ \E resp \in Responses : updateUserProfile_Resume(resp)
    \/ \E imageFile \in {"text/plain", "image/png"} : UserFree /\ updateProfilePicture_Start(imageFile)
    \/ \E resp \in Responses, withUrl \in BOOLEAN : updateProfilePicture_Resume(resp, withUrl)
    \/ \E password \in { << >>, Str_SecurePass123 } : UserFree /\ deleteAccount_Start(password)
    \/ \E resp \in Responses : deleteAccount_Resume(resp)
    \/ \E resp \in Responses : deleteAccount_Logout(resp)
    \/ UserFree /\ listAddresses_Start
    \/ \E resp \in Responses : listAddresses_Resume(resp)
    \/ UserFree /\ getAddress_Start(1)
    \/ \E resp \in Responses : getAddress_Resume(resp)
    \/ UserFree /\ addAddress_Start([ValidAddress EXCEPT !.isDefault = "true"])
    \/ \E resp \in Responses : addAddress_Resume(resp)
    \/ UserFree /\ updateAddress_Start(2, [ValidAddress EXCEPT !.isDefault = "true"])
    \/ \E resp \in Responses, withAddress \in BOOLEAN : updateAddress_Resume(resp, withAddress)
    \/ UserFree /\ deleteAddress_Start(1)
    \/ \E resp \in Responses : deleteAddress_Resume(resp)
    \/ UserFree /\ setDefaultAddress_Start(2)
    \/ \E resp \in Responses : setDefaultAddress_Resume(resp)
    \/ UserFree /\ getDefaultAddress_Start
    \/ \E resp \in Responses : getDefaultAddress_Resume(resp)

SpecUser == InitUser /\ [][NextUser]_vars

(* -------------------------- the validation spec ------------------------ *)

\* Every operation that validates its input, called with well-formed and with
\* malformed input, against a gateway that answers each request
NextInput ==
    \/ \E userData \in RegisterInputs : registerUser_Start(userData)
    \/ \E resp \in Responses : registerUser_Resume(resp)
    \/ \E in \in VerifyInputs : verifyOtp_Start(in.userId, in.otp)
    \/ \E resp \in Responses : verifyOtp_Resume(resp)
    \/ \E resp \in Responses : resendOtp(resp)
    \/ \E in \in LoginInputs : loginUser_Start(in.email, in.password)
    \/ \E resp \in Responses : loginUser_Resume(resp)
    \/ \E email \in Emails, resp \in Responses : forgotPassword(email, resp)
    \/ \E in \in ResetInputs, resp \in Responses : resetPassword(in.token, in.newPassword, resp)
    \/ \E in \in ChangeInputs, resp \in Responses :
          changePassword(in.currentPassword, in.newPassword, resp)
    \/ logoutUser_Start
    \/ \E resp \in Responses : logoutUser_Resume(resp)

SpecInput == Init /\ [][NextInput]_vars

(* ------------------------------- claims -------------------------------- *)

SessionCleared ==
    auth_token = NoToken /\ refresh_token = NoRefresh /\ user_data = NoUser

Returned(op) == last.op = op /\ last.outcome = "ok"
Threw(op) == last.op = op /\ last.outcome = "error"
Ended(op) == last.op = op /\ last.outcome \in {"ok", "error"}

\* The places of the cached collection whose entry is flagged default
DefaultPlaces ==
    { i \in 1 .. Len(user_addresses.list) : user_addresses.list[i].isDefault }

\* C1 (as claimed): in every reachable state of the address cache, after any
\* interleaving of listAddresses, addAddress, updateAddress, deleteAddress and
\* setDefaultAddress, at most one cached address has isDefault = true.
C1_AtMostOneDefault == Cardinality(DefaultPlaces) <= 1

\* C2: when setDefaultAddress(id) has just returned, every cached entry has
\* isDefault = (its id = id); so at most one cached address is default, and
\* an address other than id that was default before the call no longer is.
C2_SetDefaultIsExclusive ==
    Returned("setDefaultAddress") =>
        /\ \A i \in 1 .. Len(user_addresses.list) :
              user_addresses.list[i].isDefault = (user_addresses.list[i].id = last.id)
        /\ Cardinality(DefaultPlaces) <= 1
        /\ \A i \in DefaultPlaces : user_addresses.list[i].id \notin last.prevDefault \ {last.id}

\* C2 witness: setDefaultAddress(addr_2) has just returned on a cache that
\* still holds addr_1, which was default when the answer arrived.
C2_Witness ==
    /\ Returned("setDefaultAddress") /\ last.id = 2
    /\ 1 \in last.prevDefault
    /\ \E i \in 1 .. Len(user_addresses.list) : user_addresses.list[i].id = 1

\* C3: whenever isAuthenticated() is called it returns true exactly when an
\* access token is stored, the token decodes (three segments with a payload)
\* and its expiry claim is strictly greater than the current time; a stored
\* token whose expiry is <= the current time gives false, however often the
\* call returned true for that token before.
C3_IsAuthenticatedDerived ==
    last.op = "isAuthenticated" =>
        ( last.result <=>
            (auth_token # NoToken /\ auth_token.segs = 3 /\ auth_token.exp > now) )

\* C3 witness: isAuthenticated() has just returned false for a stored,
\* decodable token that was good when it was issued and whose expiry is now
\* reached.
C3_Witness ==
    /\ last.op = "isAuthenticated" /\ ~last.result
    /\ auth_token.segs = 3 /\ auth_token.exp = now

\* C4 (as claimed): when loginUser returns successfully the token is stored,
\* the gateway's user record is stored and isAuthenticated() is true.
C4_LoginThenAuthenticated ==
    Returned("loginUser") =>
        (auth_token # NoToken /\ user_data = LoginUser /\ isAuthenticated)

\* C5 (as claimed): every logoutUser call that ends, by returning or by
\* throwing, leaves the access token, the refresh token and the user record
\* removed and has dispatched userLoggedOut.
C5_LogoutClearsAndEmits ==
    Ended("logoutUser") =>
        (SessionCleared /\ last.events = << "userLoggedOut" >>)

\* C6: when refreshToken fails (no refresh token stored, the gateway rejects
\* it, or the request fails) the access token, the refresh token and the user
\* record are all removed in that same step, the redirect to the login page is
\* signalled, and isAuthenticated() is false.
C6_RefreshFailureEndsSession ==
    Threw("refreshToken") =>
        (SessionCleared /\ last.redirect /\ ~isAuthenticated)

\* C6 witness: a refresh has just failed in a session that held an access
\* token, a refresh token and a user record.
C6_Witness ==
    /\ Threw("refreshToken")
    /\ last.had.token /\ last.had.refresh /\ last.had.user

\* C7 (as claimed): when verifyOtp returns successfully the tokens and the
\* user record are stored, the pending-registration marker is removed and
\* exactly one userLoggedIn event has been dispatched.
C7_VerifyEmitsSessionEstablished ==
    Returned("verifyOtp") =>
        ( /\ auth_token # NoToken /\ user_data = VerifiedUser
          /\ pending_registration = NoPending
          /\ last.events = << "userLoggedIn" >> )

\* C8 (as claimed): a call whose input fails the documented validation rule of
\* its operation issues no gateway request and leaves the tokens, the user
\* record, the address cache and the pending-registration marker as they were.
C8_ValidationBeforeGateway ==
    [][ (~last'.valid) => (last'.gw = 0 /\ UNCHANGED store) ]_vars

\* C9 (as claimed): verifyOtp issues its gateway request only for a code of
\* exactly six digits.
C9_OtpIsSixDigits ==
    (last.op = "verifyOtp" /\ last.gw > 0) => last.valid

\* The stored token decodes and its expiry has passed
TokenExpired == auth_token.segs = 3 /\ auth_token.exp <= now

\* C10 (as claimed): a current user is reported exactly when an access token is
\* stored and not expired.
C10_UserIffTokenGood ==
    (getCurrentUser # NoUser) <=> (auth_token # NoToken /\ ~TokenExpired)

\* An operation of the Profile/Address service is invoked
InvokeUser ==
    \/ getUserProfile_Start
    \/ \E profileData \in UserProfileInputs : updateUserProfile_Start(profileData)
    \/ \E imageFile \in {"text/plain", "image/png"} : updateProfilePicture_Start(imageFile)
    \/ \E password \in { << >>, Str_SecurePass123 } : deleteAccount_Start(password)
    \/ listAddresses_Start
    \/ getAddress_Start(1)
    \/ addAddress_Start([ValidAddress EXCEPT !.isDefault = "true"])
    \/ updateAddress_Start(2, [ValidAddress EXCEPT !.isDefault = "true"])
    \/ deleteAddress_Start(1)
    \/ setDefaultAddress_Start(2)
    \/ getDefaultAddress_Start

\* C11: every operation of the Profile/Address service (getProfile,
\* updateProfile, updateAvatar, deleteAccount, listAddresses, getAddress,
\* addAddress, updateAddress, deleteAddress, setDefaultAddress,
\* getDefaultAddress) that is invoked while no access token is stored throws
\* "User not authenticated", issues no gateway request, starts no call and
\* leaves the token store, the user record and the address cache as they were.
C11_NoTokenNoAccess ==
    [][ (getToken = NoToken /\ InvokeUser) =>
            /\ last'.outcome = "error"
            /\ last'.error = "User not authenticated"
            /\ last'.gw = 0
            /\ last'.events = << >>
            /\ UNCHANGED << store, calls >> ]_vars

\* getDefaultAddress was refused for want of a token while addresses are cached
C11_Witness ==
    /\ last.op = "getDefaultAddress"
    /\ last.error = "User not authenticated"
    /\ getToken = NoToken
    /\ user_addresses.cached

\* The call that the step just taken completed
Completed == CHOOSE call \in BagToSet(calls) : calls' = calls (-) SetToBag({call})

\* C12 (as claimed): when the gateway fails or cannot be reached during
\* getProfile() or listAddresses() and a cached copy existed when the call
\* began, the call returns the cached data with the staleness marker; it throws
\* only when there was no cached copy.
C12_StaleFallbackReads ==
    [][ \A resp \in {"reject", "throw"} :
            (getUserProfile_Resume(resp) \/ listAddresses_Resume(resp)) =>
                IF Completed.hadCache
                THEN last'.outcome = "ok" /\ last'.result
                ELSE last'.outcome = "error" ]_vars

\* A write of the Profile/Address service resumes on a gateway answer resp
WriteResumes(resp) ==
    \/ updateUserProfile_Resume(resp)
    \/ \E withUrl \in BOOLEAN : updateProfilePicture_Resume(resp, withUrl)
    \/ addAddress_Resume(resp)
    \/ \E withAddress \in BOOLEAN : updateAddress_Resume(resp, withAddress)
    \/ deleteAddress_Resume(resp)
    \/ setDefaultAddress_Resume(resp)

\* C13: when the gateway rejects or fails an updateProfile, updateAvatar,
\* addAddress, updateAddress, deleteAddress or setDefaultAddress request, the
\* call throws, the cached user record and the address cache (and the rest of
\* the token store) are exactly as before the call's answer, and no event is
\* dispatched.
C13_WriteThroughOnSuccessOnly ==
    [][ \A resp \in {"reject", "throw"} :
            WriteResumes(resp) =>
                /\ last'.outcome = "error"
                /\ last'.events = << >>
                /\ UNCHANGED store ]_vars

\* An updateAddress request failed while addresses were cached and a user
\* record was stored
C13_Witness ==
    /\ last.op = "updateAddress"
    /\ last.error = "gateway"
    /\ user_addresses.cached
    /\ user_data # NoUser

\* C14 (as claimed): deleteAccount has exactly two outcomes: it returns with
\* the session cleared, or it throws with the session as it was; it never
\* throws after the session was cleared, also when the deletion was accepted
\* and the logout notification fails.
C14_DeleteAccountTwoOutcomes ==
    [][ (last'.op = "deleteAccount" /\ last'.outcome \in {"ok", "error"}) =>
            IF last'.outcome = "ok" THEN SessionCleared' ELSE UNCHANGED session ]_vars

\* C15 (as claimed): whenever a session ends, by logout, by a failed refresh
\* or by the teardown after a 401, the address cache is empty in the state
\* the ending step leaves.
C15_SessionEndWipesAddresses ==
    (\/ Ended("logoutUser")
     \/ Threw("refreshToken")
     \/ Returned("handleAuthError")) => user_addresses = NoCache

\* The step just taken dispatched the window event named
Dispatched(event) == \E i \in 1 .. Len(last.events) : last.events[i] = event

\* C16 (as claimed): on every 'userLoggedIn' and 'userLoggedOut' event the
\* coordinator delivers the recomputed snapshot to every registered listener,
\* and on 'userLoggedOut' it also clears the address cache.
C16_EventsReachListeners ==
    /\ (Dispatched("userLoggedIn") \/ Dispatched("userLoggedOut")) =>
           last.delivered = listeners
    /\ Dispatched("userLoggedOut") => user_addresses = NoCache

\* C17: a notification calls every registered listener, in the order in which
\* they were registered; a listener that throws neither stops the delivery to
\* the listeners after it nor makes the notifying call throw.
C17_EveryListenerInOrder ==
    last.op = "updateAuthState" =>
        /\ last.delivered = listeners
        /\ last.outcome = "ok"

\* A notification went to a throwing listener and then to the one after it
C17_Witness ==
    /\ last.op = "updateAuthState"
    /\ Len(listeners) >= 2
    /\ Throws(listeners[1])
    /\ ~Throws(listeners[2])
    /\ last.delivered = listeners

\* C18 (as claimed): with a refresh token stored and no refresh awaiting its
\* answer, the stored access token of a session checked every 50 minutes
\* (threshold 10 minutes, tokens of 60 minutes) is never an expired one,
\* whatever the offset between the token's issue and the timer.
C18_RefreshedBeforeExpiry ==
    (/\ getToken # NoToken
     /\ ~parseJwt(getToken).threw
     /\ getRefreshToken # NoRefresh
     /\ Pending("refreshTokenIfNeeded") = {}) => parseJwt(getToken).exp > now

C20_LogoutWhenLoggedOut ==
    [][ (SessionCleared /\ logoutUser_Start) =>
            /\ last'.outcome = "ok"
            /\ last'.gw = 0
            /\ UNCHANGED session ]_vars

\* The value a page reads from the query parameter `redirect` of an address:
\* what follows "redirect=" up to the next "&", with its escapes decoded
RECURSIVE queryValue(_)
queryValue(str) ==
    IF str = << >> \/ Head(str) = "&" THEN << >>
    ELSE << Head(str) >> \o queryValue(Tail(str))

RECURSIVE decodeURIComponent(_)
decodeURIComponent(str) ==
    IF str = << >> THEN << >>
    ELSE IF Head(str) = "%" /\ Len(str) >= 3
    THEN LET hex == SubSeq(str, 1, 3)
             hits == { c \in DOMAIN Escapes : Escapes[c] = hex }
         IN (IF hits = {} THEN hex ELSE << CHOOSE c \in hits : TRUE >>)
            \o decodeURIComponent(SubSeq(str, 4, Len(str)))
    ELSE << Head(str) >> \o decodeURIComponent(Tail(str))

redirectParam(target) ==
    decodeURIComponent(queryValue(SubSeq(target, Len(LoginRedirect) + 1, Len(target))))

\* C21: requireAuth() returns true and sets no location exactly when
\* isAuthenticated() is true; otherwise it returns false and sets the location
\* to the login page with a `redirect` parameter whose value is the redirectUrl
\* it was given, or the current location when it was given none.
C21_RequireAuth ==
    [][ \A redirectUrl \in RedirectUrls :
            requireAuth(redirectUrl) =>
                /\ last'.result = isAuthenticated
                /\ last'.outcome = "ok"
                /\ IF isAuthenticated
                   THEN ~last'.redirect /\ last'.target = << >>
                   ELSE /\ last'.redirect
                        /\ SubSeq(last'.target, 1, Len(LoginRedirect)) = LoginRedirect
                        /\ redirectParam(last'.target) =
                               (IF redirectUrl = << >> THEN Location ELSE redirectUrl) ]_vars

\* requireAuth has sent a visitor whose stored token is no valid session to
\* the login page, with an address that holds "&" to come back to
C21_Witness ==
    /\ last.op = "requireAuth"
    /\ ~last.result
    /\ getToken # NoToken
    /\ \E i \in 1 .. Len(redirectParam(last.target)) : redirectParam(last.target)[i] = "&"

\* The refresh token the gateway's answer to an operation may carry
CarriedRefresh(op) ==
    IF op = "refreshToken" THEN "new_mock_refresh_token" ELSE "mock_refresh_token"

\* C22: a login, verification or refresh that succeeds stores the access token
\* of the answer; the stored refresh token is afterwards the one the answer
\* carried or, when it carried none, the one stored before, unchanged: a stored
\* refresh token is never removed by a successful answer.
C22_RefreshTokenKeptUnlessProvided ==
    [][ (last'.op \in {"loginUser", "verifyOtp", "refreshToken"} /\ last'.outcome = "ok") =>
            /\ auth_token' \in IssuedTokens
            /\ refresh_token' \in {refresh_token, CarriedRefresh(last'.op)}
            /\ refresh_token # NoRefresh => refresh_token' # NoRefresh ]_vars

\* A refresh has succeeded with an answer that carried no refresh token: the
\* refresh token of the login is still stored
C22_Witness ==
    /\ Returned("refreshToken")
    /\ refresh_token = "mock_refresh_token"
    /\ auth_token # NoToken

\* C23 (as claimed): when the cached user record is the one a successful
\* updateProfile({phone: p}) stored, a getProfile() that the gateway answers
\* with success returns and caches that same record: its phone is p and its
\* other fields are as they were.
C23_ProfileRoundTrip ==
    [][ (/\ getUserProfile_Resume("ok")
         /\ \E profileData \in UserProfileInputs :
               user_data = [ProfileUser EXCEPT !.phone = PhoneOf(profileData.phone)]) =>
            user_data' = user_data ]_vars

(* ---------------------------- the events spec -------------------------- *)

\* The operations that dispatch a window event, with listAddresses to fill
\* the address cache, on a freshly loaded page
NextEvents ==
    \/ UserFree /\ verifyOtp_Start(Str_userId, Str_123456)
    \/ \E resp \in Responses : verifyOtp_Resume(resp)
    \/ UserFree /\ loginUser_Start(Str_user_example_com, Str_SecurePass123)
    \/ \E resp \in Responses : loginUser_Resume(resp)
    \/ UserFree /\ logoutUser_Start
    \/ \E resp \in Responses : logoutUser_Resume(resp)
    \/ \E profileData \in UserProfileInputs : UserFree /\ updateUserProfile_Start(profileData)
    \/ \E resp \in Responses : updateUserProfile_Resume(resp)
    \/ UserFree /\ listAddresses_Start
    \/ \E resp \in Responses : listAddresses_Resume(resp)
    \/ UserFree /\ addAddress_Start([ValidAddress EXCEPT !.isDefault = "true"])
    \/ \E resp \in Responses : addAddress_Resume(resp)
    \/ UserFree /\ updateAddress_Start(2, [ValidAddress EXCEPT !.isDefault = "true"])
    \/ \E resp \in Responses, withAddress \in BOOLEAN : updateAddress_Resume(resp, withAddress)
    \/ UserFree /\ deleteAddress_Start(1)
    \/ \E resp \in Responses : deleteAddress_Resume(resp)

SpecEvents == Init /\ [][NextEvents]_vars

\* The stored items as a map from their storage keys
Stored ==
    [auth_token |-> auth_token, refresh_token |-> refresh_token, user_data |-> user_data,
     pending_registration |-> pending_registration, user_addresses |-> user_addresses]

\* The stored items an operation that dispatches an event writes before it
Writes(op) ==
    CASE op = "loginUser" -> LoginItems
      [] op \in {"logoutUser", "deleteAccount", "refreshTokenIfNeeded"} -> SessionItems
      [] op = "updateUserProfile" -> {"user_data"}
      [] op \in {"addAddress", "updateAddress", "deleteAddress"} -> {"user_addresses"}
      [] OTHER -> {}

RefreshesInFlight ==
    LET refreshes == { call \in BagToSet(calls) :
                          call.op \in {"refreshToken", "refreshTokenIfNeeded"} }
    IN BagCardinality([call \in refreshes |-> CopiesIn(call, calls)])

\* C25: at most one refresh exchange with the gateway is in flight at any
\* time, whoever started it.
C25_SingleRefreshInFlight == RefreshesInFlight <= 1

\* C26: when the answer to setDefaultAddress(a) has just been applied while a
\* setDefaultAddress(b) with another id was still in flight, and the answer to
\* that call then succeeds, the cache is what the later answer alone makes it:
\* every cached entry is default exactly when its id is b, so a is no longer
\* default and a and b are never default together; no entry is added, removed
\* or moved.
C26_LastAnswerDecidesDefault ==
    [][ ( /\ Returned("setDefaultAddress")
          /\ \E call \in Pending("setDefaultAddress") : call.id # last.id
          /\ setDefaultAddress_Resume("ok")
          /\ last'.outcome = "ok"
          /\ last'.id # last.id )
        => /\ \A i \in 1 .. Len(user_addresses'.list) :
                 user_addresses'.list[i].isDefault = (user_addresses'.list[i].id = last'.id)
           /\ DefaultIds(user_addresses'.list) \subseteq {last'.id}
           /\ last.id \notin DefaultIds(user_addresses'.list)
           /\ Len(user_addresses'.list) = Len(user_addresses.list)
           /\ \A i \in 1 .. Len(user_addresses.list) :
                 user_addresses'.list[i].id = user_addresses.list[i].id
      ]_vars

\* The answer to setDefaultAddress(addr_1) has been applied and made addr_1 the
\* default while setDefaultAddress(addr_2) is still in flight; both are cached
C26_Witness ==
    /\ Returned("setDefaultAddress") /\ last.id = 1
    /\ \E call \in Pending("setDefaultAddress") : call.id = 2
    /\ DefaultIds(user_addresses.list) = {1}
    /\ \E i \in 1 .. Len(user_addresses.list) : user_addresses.list[i].id = 2

\* The stored access token is one of a live session with less than the
\* threshold of ten minutes left
DueForRefresh ==
    /\ auth_token # NoToken /\ auth_token.segs = 3 /\ auth_token.exp > now
    /\ auth_token.exp - now < RefreshThreshold

\* C27: a run of the recurring check calls refreshToken() (it sends the
\* refresh request, or refreshToken fails at once for want of a refresh token
\* and the session is ended) exactly when the stored token is of a live
\* session with strictly less than ten minutes left; otherwise the run issues
\* no gateway request, dispatches nothing and changes no stored state.
C27_CheckRefreshesIffDue ==
    [][ refreshTokenIfNeeded_Start =>
          /\ DueForRefresh <=> (last'.outcome = "pending" \/ last'.redirect)
          /\ (DueForRefresh /\ getRefreshToken # NoRefresh) =>
                (last'.outcome = "pending" /\ last'.gw = 1)
          /\ ~DueForRefresh =>
                /\ last'.outcome = "ok" /\ last'.gw = 0 /\ last'.events = << >>
                /\ UNCHANGED << store, calls >>
      ]_vars

\* A run of the check found a live token with five minutes left and sent the
\* refresh request
C27_Witness ==
    /\ last.op = "refreshTokenIfNeeded" /\ last.outcome = "pending" /\ last.gw = 1
    /\ auth_token # NoToken /\ auth_token.exp - now = 1
    /\ nextCheck = now + RefreshEvery

\* C28 (as claimed): when logoutUser has just ended and left no access token,
\* no refresh token and no user record, the next step stores one of them again
\* only if it is a successful loginUser or verifyOtp; the answer to a call that
\* was in flight when the logout ran writes nothing back.
C28_NothingWrittenBackAfterLogout ==
    [][ (Ended("logoutUser") /\ SessionCleared /\ ~SessionCleared')
           => (last'.op \in {"loginUser", "verifyOtp"} /\ last'.outcome = "ok") ]_vars

\* The ids of the cached addresses
CachedIds(cache) == { cache.list[i].id : i \in 1 .. Len(cache.list) }

AddressMutations == {"addAddress", "updateAddress", "deleteAddress", "setDefaultAddress"}

\* C29: every confirmed addAddress, updateAddress, deleteAddress and
\* setDefaultAddress works on the cache as it is when its answer arrives,
\* whatever other calls are in flight: it keeps every cached address other
\* than its own, brings back no id that is not cached, an added address is
\* cached afterwards and a deleted id is not.  By induction over the answers
\* no confirmed mutation is lost in any interleaving.
C29_NoLostAddressUpdates ==
    [][ (last'.op \in AddressMutations /\ last'.outcome = "ok") =>
          LET before == CachedIds(user_addresses)
              after == CachedIds(user_addresses')
          IN /\ before \ {last'.id} \subseteq after
             /\ after \ {NullEntry.id} \subseteq
                   before \cup (IF last'.op = "addAddress" THEN {last'.id} ELSE {})
             /\ last'.op = "addAddress" => last'.id \in after \ before
             /\ last'.op = "deleteAddress" => last'.id \notin after
      ]_vars

\* deleteAddress(addr_1) has been confirmed on a cache that holds an address
\* added before, while an addAddress is in flight: the added address is still
\* cached and addr_1 is not
C29_Witness ==
    /\ Returned("deleteAddress") /\ last.id = 1
    /\ Pending("addAddress") # {}
    /\ CachedIds(user_addresses) = {2, 3}

\* C30 (as claimed): a setDefaultAddress that returns successfully changes
\* nothing of the cache but the isDefault flags: the same entries in the same
\* order with every other field as it was, and a cache that was absent before
\* the call is absent after it.
C30_SetDefaultChangesOnlyFlags ==
    [][ (last'.op = "setDefaultAddress" /\ last'.outcome = "ok") =>
          /\ user_addresses'.cached = user_addresses.cached
          /\ Len(user_addresses'.list) = Len(user_addresses.list)
          /\ \A i \in 1 .. Len(user_addresses.list) :
                [user_addresses'.list[i] EXCEPT !.isDefault = user_addresses.list[i].isDefault]
                   = user_addresses.list[i]
      ]_vars

====
